---- MODULE Spec2Model ----
(***************************************************************************)
(* Feedback-submission pipeline of the amendment feedback backend.         *)
(*                                                                         *)
(* The repository holds several FastAPI applications that expose the same  *)
(* feedback endpoint over the same two tables.  One behaviour of this      *)
(* model is one deployment: `app` names the handler that serves POST       *)
(* /feedback (or /submit_feedback), and the handlers are modelled stage by *)
(* stage from their code.  Every handler is an `async def` without an      *)
(* await, so the event loop runs one handler at a time: the model holds    *)
(* the locals of the one request that is being served.                     *)
(*                                                                         *)
(* Numbers in [0,1] (scores, confidences) are counted in hundredths.       *)
(*                                                                         *)
(* Spec is the server: requests arrive, are served one handler at a time,  *)
(* may be cancelled before their handler runs.  CallSpec calls the         *)
(* summarization and sentiment functions alone, one call per behaviour.    *)
(* StoreSpec is the two tables with the handlers that create and list      *)
(* their rows.                                                             *)
(***************************************************************************)
EXTENDS Integers, Sequences, FiniteSets, TLC

\* ---------------------------------------------------------------- bounds
MaxAmendments == 1      \* amendments that may be created
MaxRequests == 2        \* feedback requests served in one behaviour
LongLen == 16           \* word count of the long sample comment
MidLen == 11            \* word count of the medium sample comment
MaxHits == 3            \* largest keyword count given to the decision logic
MaxWords == 5           \* largest word count given to the decision logic

\* ------------------------------------------------------ program constants
TOXICITY_THRESHOLD == 60     \* is_toxic = max_score > 0.6
MAX_SUMMARY_WORDS == 15      \* simple_summary / summarize_text max_words
FALLBACK_WORDS == 50         \* words[:50] of the truncation fallback
MIN_LEN_TO_SUMMARIZE == 50   \* len(comment) > 50 in the inline handlers
MIN_WORDS_CUDA == 10         \* len(text.split()) < 10: too short to summarize
MAX_TEXT_LEN == 5000         \* original_text: Field(..., max_length=5000)

\* --------------------------------------------------------------- values
Null == <<>>
Some(x) == <<x>>

\* A Python float (counted in hundredths) and its "%.4f" rendering.
Float(x) == [kind |-> "float", v |-> x]
Fmt4(f) == [kind |-> "str", v |-> f.v]

\* A string: `words` joined by single spaces, after the prefix `pre`, cut to
\* its first `chars` characters when chars > 0, followed by `tail`.
Str(ws) == [pre |-> "", words |-> ws, chars |-> 0, tail |-> ""]

\* Every word of the input vocabulary has four letters, but for one run of
\* letters that is longer than a feedback text may be.
Oversize == "aaaa..."
WordLen(w) == IF w = Oversize THEN MAX_TEXT_LEN + 1 ELSE 4

RECURSIVE SumLen(_)
SumLen(ws) == IF ws = <<>> THEN 0 ELSE WordLen(Head(ws)) + SumLen(Tail(ws))

\* len(text) of an input text (no prefix, no cut, no tail).
PyLen(s) == IF s.words = <<>> THEN 0 ELSE SumLen(s.words) + Len(s.words) - 1

\* text.split() of an input text.
Split(s) == s.words

\* str.lower() on one word.
Lower(w) ==
    CASE w = "Good" -> "good"
      [] w = "Great" -> "great"
      [] w = "Helpful" -> "helpful"
      [] w = "Unhelpful" -> "unhelpful"
      [] OTHER -> w

\* The keywords that occur inside a lower-case word of the vocabulary: the
\* word itself, and the keywords that are proper parts of it.
Parts(w) ==
    CASE w = "unhelpful" -> {"unhelpful", "helpful", "help"}
      [] w = "helpful" -> {"helpful", "help"}
      [] OTHER -> {w}

\* `kw in text.lower()` for a keyword of one word: a substring test, so the
\* keyword is found in every word it is a part of.
Contains_cased(s, kw) == \E i \in 1..Len(s.words) : kw \in Parts(s.words[i])
Contains(s, kw) == \E i \in 1..Len(s.words) : kw \in Parts(Lower(s.words[i]))

Count(s, kws) == Cardinality({kw \in kws : Contains(s, kw)})

Max2(a, b) == IF a >= b THEN a ELSE b
Min2(a, b) == IF a <= b THEN a ELSE b
Prefix(ws, n) == SubSeq(ws, 1, Min2(n, Len(ws)))

\* --------------------------------------------------------------- inputs
ShortText == Str(<<"Good", "laws">>)
MidText == Str([i \in 1..MidLen |-> IF i = 1 THEN "poor" ELSE "laws"])
LongText == Str([i \in 1..LongLen |-> IF i = 1 THEN "good" ELSE "laws"])
Texts == {ShortText, MidText, LongText}

\* What the external models may answer.
Scores == {10, 60, 61}
ToxOutcomes ==
    {[raised |-> TRUE, toxicity |-> 0, insult |-> 0]}
    \cup {[raised |-> FALSE, toxicity |-> a, insult |-> b] : a, b \in Scores}
SentOutcomes ==
    {[raised |-> TRUE, label |-> "NEGATIVE", score |-> 0],
     [raised |-> FALSE, label |-> "POSITIVE", score |-> 99],
     [raised |-> FALSE, label |-> "NEGATIVE", score |-> 55]}
SumOutcomes ==
    {[raised |-> TRUE, summary_text |-> Str(<<>>)],
     [raised |-> FALSE, summary_text |-> Str(<<"gist">>)]}

\* ------------------------------------------------------- app_lite_toxicity
\* detect_toxicity: (is_toxic, score); fails open when Detoxify is not
\* installed or raises.
detect_toxicity_inclusive(available, out) ==
    IF ~available THEN [is_toxic |-> FALSE, score |-> 0]
    ELSE IF out.raised THEN [is_toxic |-> FALSE, score |-> 0]
    ELSE LET max_score == Max2(out.toxicity, out.insult)
         IN [is_toxic |-> max_score >= TOXICITY_THRESHOLD, score |-> max_score]

detect_toxicity(available, out) ==
    IF ~available THEN [is_toxic |-> FALSE, score |-> 0]
    ELSE IF out.raised THEN [is_toxic |-> FALSE, score |-> 0]
    ELSE LET max_score == Max2(out.toxicity, out.insult)
         IN [is_toxic |-> max_score > TOXICITY_THRESHOLD, score |-> max_score]

lite_positive_words ==
    {"good", "great", "excellent", "positive", "support", "agree", "beneficial"}
lite_negative_words ==
    {"bad", "terrible", "awful", "negative", "oppose", "disagree", "harmful"}

simple_sentiment(text) ==
    LET pos_count == Count(text, lite_positive_words)
        neg_count == Count(text, lite_negative_words)
    IN IF pos_count > neg_count THEN [label |-> "positive", confidence |-> Float(75)]
       ELSE IF neg_count > pos_count THEN [label |-> "negative", confidence |-> Float(75)]
       ELSE [label |-> "neutral", confidence |-> Float(60)]

simple_summary(text) ==
    LET words == Split(text)
    IN IF Len(words) <= MAX_SUMMARY_WORDS THEN text
       ELSE [pre |-> "", words |-> Prefix(words, MAX_SUMMARY_WORDS),
             chars |-> 0, tail |-> "..."]

\* ---------------------------------------------------------------- app_cuda
detect_toxicity_cuda(available, out) ==
    IF ~available THEN [is_toxic |-> FALSE, score |-> 0]
    ELSE IF out.raised THEN [is_toxic |-> FALSE, score |-> 0]
    ELSE [is_toxic |-> out.toxicity > TOXICITY_THRESHOLD, score |-> out.toxicity]

analyze_sentiment_cuda(available, out) ==
    IF ~available \/ out.raised
    THEN [label |-> "neutral", confidence |-> Float(50)]
    ELSE [label |-> IF out.label = "POSITIVE" THEN "positive" ELSE "negative",
          confidence |-> Float(out.score)]

\* ' '.join(words[:50]) + ('...' if len(words) > 50 else '')
truncate_cuda(text) ==
    LET words == Split(text)
    IN [pre |-> "", words |-> Prefix(words, FALLBACK_WORDS), chars |-> 0,
        tail |-> IF Len(words) > FALLBACK_WORDS THEN "..." ELSE ""]

summarize_text_cuda(available, out, text) ==
    IF ~available THEN truncate_cuda(text)
    ELSE IF Len(Split(text)) < MIN_WORDS_CUDA THEN text
    ELSE IF out.raised THEN truncate_cuda(text)
    ELSE out.summary_text

\* --------------------------------------------------------- app_full_system
full_positive_keywords ==
    {"good", "great", "excellent", "approve", "support", "beneficial", "helpful", "clear"}
full_negative_keywords ==
    {"bad", "poor", "confusing", "difficult", "burden", "impractical", "harmful"}

analyze_sentiment(loaded, out, text) ==
    IF loaded /\ ~out.raised
    THEN [label |-> IF out.label = "POSITIVE" THEN "positive" ELSE "negative",
          confidence |-> Float(out.score)]
    ELSE LET positive_count == Count(text, full_positive_keywords)
             negative_count == Count(text, full_negative_keywords)
         IN IF positive_count > negative_count
            THEN [label |-> "positive", confidence |-> Float(70)]
            ELSE IF negative_count > positive_count
            THEN [label |-> "negative", confidence |-> Float(70)]
            ELSE [label |-> "neutral", confidence |-> Float(50)]

summarize_text(loaded, out, text) ==
    LET words == Split(text)
    IN IF Len(words) <= MAX_SUMMARY_WORDS THEN text
       ELSE IF loaded /\ ~out.raised
       THEN Str(Prefix(Split(out.summary_text), MAX_SUMMARY_WORDS))
       ELSE Str(Prefix(words, MAX_SUMMARY_WORDS))

\* --------------------------------------- app_cuda_simple, app_debug (inline)
\* toxicity_model.predict(...).get('toxicity', 0), then `toxic_score > 0.6`;
\* an exception of predict is not caught here.
inline_toxicity(out) ==
    [raised |-> out.raised,
     is_toxic |-> ~out.raised /\ out.toxicity > TOXICITY_THRESHOLD,
     score |-> out.toxicity]

\* sentiment_pipeline(text)[0]: /feedback lower-cases the label, /submit_feedback
\* keeps it.
inline_sentiment(out, lowered) ==
    [raised |-> out.raised,
     label |-> IF ~lowered THEN out.label
               ELSE IF out.label = "POSITIVE" THEN "positive" ELSE "negative",
     confidence |-> Float(out.score)]

inline_summary(out, text) ==
    IF PyLen(text) > MIN_LEN_TO_SUMMARIZE
    THEN [raised |-> out.raised, summary |-> out.summary_text]
    ELSE [raised |-> FALSE, summary |-> text]

\* app_debug without the models: rule-based analysis.
debug_negative_words ==
    {"bad", "terrible", "awful", "hate", "horrible", "worst", "sucks", "stupid", "dumb"}
debug_positive_words ==
    {"good", "great", "excellent", "amazing", "wonderful", "best", "love", "fantastic"}

mock_sentiment(text) ==
    LET negative_count == Count(text, debug_negative_words)
        positive_count == Count(text, debug_positive_words)
    IN IF negative_count > positive_count
       THEN [label |-> "negative",
             confidence |-> Float(Min2(70 + negative_count * 10, 95))]
       ELSE IF positive_count > negative_count
       THEN [label |-> "positive",
             confidence |-> Float(Min2(70 + positive_count * 10, 95))]
       ELSE [label |-> "neutral", confidence |-> Float(Min2(50, 95))]

\* f"Summary: {text[:50]}..." if len(text) > 50 else text
mock_summary(text) ==
    IF PyLen(text) > MIN_LEN_TO_SUMMARIZE
    THEN [pre |-> "Summary: ", words |-> text.words,
          chars |-> MIN_LEN_TO_SUMMARIZE, tail |-> "..."]
    ELSE text

\* ------------------------------------------- text.strip(), blank texts
\* A text may begin and end with whitespace: pre = " ", tail = " ".
Strip(s) ==
    [s EXCEPT !.pre = IF @ = " " THEN "" ELSE @,
              !.tail = IF @ = " " THEN "" ELSE @]

\* text.strip() == ""
IsBlank(s) == Strip(s) = Str(<<>>)

\* ' '.join(words[:n]) + "..."
Ellipsis(ws, n) == [pre |-> "", words |-> Prefix(ws, n), chars |-> 0, tail |-> "..."]

NO_CONTENT == Str(<<"No", "content", "to", "summarize">>)

\* ---------------------------------------------------------- app_production
summarize_text_real_unstripped(loaded, out, text) ==
    IF IsBlank(text) THEN NO_CONTENT
    ELSE LET text_str == Strip(text)
             words == Split(text_str)
         IN IF Len(words) <= MAX_SUMMARY_WORDS THEN text
            ELSE IF ~loaded THEN Ellipsis(words, FALLBACK_WORDS)
            ELSE IF out.raised THEN Ellipsis(words, FALLBACK_WORDS)
            ELSE out.summary_text

summarize_text_real(loaded, out, text) ==
    IF IsBlank(text) THEN NO_CONTENT
    ELSE LET text_str == Strip(text)
             words == Split(text_str)
         IN IF Len(words) <= MAX_SUMMARY_WORDS THEN text_str
            ELSE IF ~loaded THEN Ellipsis(words, FALLBACK_WORDS)
            ELSE IF out.raised THEN Ellipsis(words, FALLBACK_WORDS)
            ELSE out.summary_text

\* ---------------------------------------------------------------- app_demo
\* summarize_text of app_demo: the fallback joins the first 50 words and adds
\* nothing.
demo_summarize_text(loaded, out, text) ==
    IF IsBlank(text) THEN NO_CONTENT
    ELSE LET text_str == Strip(text)
             words == Split(text_str)
         IN IF Len(words) <= MAX_SUMMARY_WORDS THEN text_str
            ELSE IF loaded /\ ~out.raised THEN out.summary_text
            ELSE Str(Prefix(words, FALLBACK_WORDS))

\* -------------------------------------------------------------- app_robust
robust_positive_words ==
    {"good", "great", "excellent", "amazing", "love", "fantastic", "wonderful"}
robust_negative_words ==
    {"bad", "terrible", "awful", "hate", "worst", "poor", "disappointing"}

predict_sentiment_mock(text) ==
    IF Count(text, robust_positive_words) > 0 THEN "POSITIVE"
    ELSE IF Count(text, robust_negative_words) > 0 THEN "NEGATIVE"
    ELSE "NEUTRAL"

\* predict_sentiment of app_robust: id2label of the model, the mock when the
\* models are not loaded or the model raises.
robust_predict_sentiment(loaded, out, text) ==
    IF IsBlank(text) THEN "NEUTRAL"
    ELSE IF ~loaded THEN predict_sentiment_mock(text)
    ELSE IF out.raised THEN predict_sentiment_mock(text)
    ELSE out.label

\* ------------------------------------------------------------ app_enhanced
enhanced_positive_words ==
    {"good", "great", "excellent", "amazing", "love", "fantastic", "wonderful",
     "awesome", "perfect", "best", "brilliant", "outstanding", "superb",
     "happy", "pleased", "satisfied", "impressed", "recommend", "quality",
     "fast", "quick", "efficient", "responsive", "helpful", "clear", "easy",
     "successful", "seamless", "professional", "dedication", "exceeded", "rare",
     "help", "helps", "grow", "encourage", "innovation", "improve", "improves",
     "benefits", "benefit", "progressive", "needed", "initiative", "simplify",
     "transparency", "appreciate", "effort", "important", "follow"}
enhanced_negative_words ==
    {"bad", "terrible", "awful", "hate", "worst", "poor", "disappointing",
     "horrible", "useless", "waste", "broken", "defective", "cheap",
     "unhappy", "frustrated", "angry", "annoyed", "problem", "issue",
     "damaged", "disappointed", "refused", "unhelpful",
     "complicated", "time-consuming", "concerns",
     "broke", "failed", "difficult", "slow", "expensive", "overpriced",
     "confusing", "burden", "impractical", "corruption", "inaccessible",
     "delay", "increase", "paperwork", "drawbacks", "harmful"}
\* The entries of negative_words that are made of two words.
enhanced_negative_word_pairs ==
    {<<"extremely", "disappointed">>, <<"not", "helpful">>, <<"low", "quality">>}
enhanced_negative_phrases ==
    {<<"extremely", "disappointed">>, <<"not", "helpful">>, <<"low", "quality">>,
     <<"poor", "quality">>, <<"terrible", "experience">>, <<"bad", "quality">>,
     <<"refused", "to", "help">>, <<"broke", "within">>}
enhanced_positive_phrases ==
    {<<"excellent", "quality">>, <<"great", "product">>,
     <<"outstanding", "customer", "service">>, <<"highly", "recommend">>,
     <<"exceeded", "expectations">>, <<"fast", "delivery">>,
     <<"excellent", "work">>, <<"great", "initiative">>, <<"much", "needed">>,
     <<"easy", "to", "follow">>, <<"help", "startups">>,
     <<"encourage", "innovation">>, <<"benefits", "small", "businesses">>,
     <<"improves", "transparency">>, <<"good", "points">>}

\* `phrase in text_lower` for a phrase of several words (no word of the
\* vocabulary ends with the first or begins with the last word of a phrase
\* without being that word).
ContainsPhrase(s, ph) ==
    \E i \in 1..(Len(s.words) - Len(ph) + 1) :
        \A j \in 1..Len(ph) : Lower(s.words[i + j - 1]) = ph[j]

CountPhrases(s, phs) == Cardinality({ph \in phs : ContainsPhrase(s, ph)})

enhanced_positive_count(text) ==
    Count(text, enhanced_positive_words)
    + 2 * CountPhrases(text, enhanced_positive_phrases)

enhanced_negative_count(text) ==
    Count(text, enhanced_negative_words)
    + CountPhrases(text, enhanced_negative_word_pairs)
    + 2 * CountPhrases(text, enhanced_negative_phrases)

\* "Decision logic with tie-breaking"
enhanced_decision_neutral_ties(positive_count, negative_count, word_count) ==
    IF positive_count > negative_count THEN "POSITIVE"
    ELSE IF negative_count > positive_count THEN "NEGATIVE"
    ELSE "NEUTRAL"

enhanced_decision_positive_ties(positive_count, negative_count, word_count) ==
    IF positive_count > negative_count THEN "POSITIVE"
    ELSE IF negative_count > positive_count THEN "NEGATIVE"
    ELSE IF word_count <= 3 THEN "NEUTRAL"
    ELSE IF positive_count > 0 THEN "POSITIVE"
    ELSE IF negative_count > 0 THEN "NEGATIVE"
    ELSE "NEUTRAL"

enhanced_decision(positive_count, negative_count, word_count) ==
    IF positive_count > negative_count THEN "POSITIVE"
    ELSE IF negative_count > positive_count THEN "NEGATIVE"
    ELSE IF word_count <= 3 THEN "NEUTRAL"
    ELSE IF negative_count > 0 THEN "NEGATIVE"
    ELSE IF positive_count > 0 THEN "POSITIVE"
    ELSE "NEUTRAL"

\* predict_sentiment of app_enhanced.
enhanced_predict_sentiment(text) ==
    IF IsBlank(text) THEN "NEUTRAL"
    ELSE enhanced_decision(enhanced_positive_count(text),
                           enhanced_negative_count(text), Len(Split(text)))

\* ------------------------------------------------------------------ state
VARIABLES
    app,            \* the handler that serves the feedback endpoint
    toxAvailable,   \* DETOXIFY_AVAILABLE and model loaded / REAL_AI_AVAILABLE
    nlpAvailable,   \* sentiment and summarization models loaded
    fkEnforced,     \* the database enforces feedback.amendment_id -> amendments.id
    amendments,     \* ids of the rows of table amendments
    feedback,       \* rows of table feedback
    pc,             \* next stage of the handler being run, "idle" when none is
    req,            \* the request body
    is_toxic, toxic_score, sentiment, confidence, summary, feedback_id,
                    \* locals of the handler
    response,       \* what the handler returned or raised
    stage,          \* state of the submission in the pipeline state machine
    history,        \* stages the handler has completed, in order
    toxOut,         \* what the toxicity classifier answered, Null if not asked
    toxFailed,      \* the classifier was unavailable or raised
    sentCalls,      \* times a sentiment strategy ran for this request
    sumCalls,       \* times a summarization strategy ran for this request
    abortCause,     \* why the handler ended in an error response
    written,        \* ids of the rows this request has written
    rowsBefore,     \* the feedback table when the request arrived
    served,         \* requests served so far
    waiting,        \* requests that have arrived and whose handler has not started
    succeeded,      \* submissions answered with the success response so far
    fn, arg, result,
                    \* a direct call of one text function: name, arguments, value
    sessions,       \* database sessions that are open
    now,            \* the clock that datetime.utcnow reads
    listing,        \* the response to the last request to the store
    created         \* what each successful create_amendment answered, by id

config == <<app, toxAvailable, nlpAvailable, fkEnforced>>
locals == <<is_toxic, toxic_score, sentiment, confidence, summary, feedback_id>>
observed == <<toxOut, toxFailed, sentCalls, sumCalls, abortCause>>
call == <<fn, arg, result>>
store == <<now, listing, created>>
vars == <<config, amendments, feedback, pc, req, locals, response, stage, history,
          observed, written, rowsBefore, served, waiting, succeeded, call,
          sessions, store>>

Apps == {"lite", "cuda", "cuda_simple_submit", "cuda_simple_frontend", "debug",
         "full_system", "minimal"}

\* The stages each handler runs, in the order of its statements.
lite_pipeline_saves_early ==
    <<"check", "gate", "sentiment", "persist", "summary", "respond">>
lite_pipeline == <<"check", "gate", "sentiment", "summary", "persist", "respond">>
cuda_pipeline == <<"check", "gate", "sentiment", "summary", "persist", "respond">>
cuda_simple_submit_pipeline == <<"gate", "sentiment", "summary", "persist", "respond">>
cuda_simple_frontend_pipeline == <<"gate", "sentiment", "summary", "respond">>
debug_pipeline ==
    IF toxAvailable THEN <<"check", "gate", "sentiment", "summary", "respond">>
    ELSE <<"check", "sentiment", "summary", "respond">>
full_system_pipeline == <<"check", "sentiment", "summary", "persist", "respond">>
minimal_pipeline == <<"persist", "respond">>

Pipeline ==
    CASE app = "lite" -> lite_pipeline
      [] app = "cuda" -> cuda_pipeline
      [] app = "cuda_simple_submit" -> cuda_simple_submit_pipeline
      [] app = "cuda_simple_frontend" -> cuda_simple_frontend_pipeline
      [] app = "debug" -> debug_pipeline
      [] app = "full_system" -> full_system_pipeline
      [] app = "minimal" -> minimal_pipeline

\* The statement after stage p.
After(p) ==
    LET i == CHOOSE k \in 1..Len(Pipeline) : Pipeline[k] = p
    IN Pipeline[i + 1]

\* The branch `if is_toxic:` saves the comment in /submit_feedback of
\* app_cuda_simple and returns at once in the other handlers.
AfterReject_falls_through == After("gate")
AfterReject_saves_all == "persist"
AfterReject == IF app = "cuda_simple_submit" THEN "persist" ELSE "respond"

NoResponse ==
    [status |-> 0, success |-> Null, toxic |-> Null, toxic_score |-> Null,
     feedback_id |-> Null, sentiment |-> Null, confidence |-> Null, summary |-> Null]
HTTPException(code) == [NoResponse EXCEPT !.status = code]

NoRequest == [amendment_id |-> 0, original_text |-> Str(<<>>)]

\* Request bodies of the feedback endpoint: JSON objects with an integer
\* amendment_id and a string original_text.
EmptyText == Str(<<>>)
OversizeText == Str(<<Oversize>>)
Bodies ==
    [amendment_id : 1..MaxAmendments, original_text : Texts]
    \cup {[amendment_id |-> 0, original_text |-> ShortText],
          [amendment_id |-> 1, original_text |-> EmptyText],
          [amendment_id |-> 1, original_text |-> OversizeText]}

\* schemas.FeedbackCreate: amendment_id gt=0, original_text of 1..5000
\* characters.
FeedbackBase(body) ==
    /\ body.amendment_id > 0
    /\ PyLen(body.original_text) >= 1
    /\ PyLen(body.original_text) <= MAX_TEXT_LEN

\* The request model each handler declares: the apps that import
\* FeedbackCreate from schemas validate the fields, the models that
\* app_cuda, app_cuda_simple and app_debug declare constrain only the types.
FeedbackCreate(body) ==
    IF app \in {"lite", "full_system", "minimal"} THEN FeedbackBase(body)
    ELSE TRUE

NoOutcome == [raised |-> TRUE]
NoListing ==
    [of |-> "none", id |-> 0, status |-> 0, rows |-> <<>>, amendments |-> 0,
     feedback |-> 0]
NoCall == [text |-> Str(<<>>), loaded |-> FALSE, out |-> NoOutcome]

\* No request has arrived yet: empty tables, no handler running.
NoTraffic ==
    /\ amendments = {}
    /\ feedback = {}
    /\ pc = "idle"
    /\ req = NoRequest
    /\ is_toxic = FALSE
    /\ toxic_score = Null
    /\ sentiment = Null
    /\ confidence = Null
    /\ summary = Null
    /\ feedback_id = Null
    /\ response = NoResponse
    /\ stage = "NONE"
    /\ history = <<>>
    /\ toxOut = Null
    /\ toxFailed = FALSE
    /\ sentCalls = 0
    /\ sumCalls = 0
    /\ abortCause = "none"
    /\ written = {}
    /\ rowsBefore = {}
    /\ served = 0
    /\ waiting = 0
    /\ succeeded = 0
    /\ sessions = 0
    /\ now = 0
    /\ listing = NoListing
    /\ created = <<>>

Init ==
    /\ app \in Apps
    /\ toxAvailable \in IF app \in {"lite", "cuda", "debug"} THEN BOOLEAN ELSE {TRUE}
    /\ nlpAvailable \in
         CASE app \in {"cuda", "full_system"} -> BOOLEAN
           [] app = "debug" -> {toxAvailable}
           [] app \in {"lite", "minimal"} -> {FALSE}
           [] OTHER -> {TRUE}
    /\ fkEnforced \in IF app = "minimal" THEN BOOLEAN ELSE {TRUE}
    /\ NoTraffic
    /\ fn = "none"
    /\ arg = NoCall
    /\ result = Null

\* ------------------------------------------------- dispatch on the handler
WithoutRaise(r) == [raised |-> FALSE, is_toxic |-> r.is_toxic, score |-> r.score]

\* Whether the stage asks the external toxicity classifier.
ClassifierAsked == IF app \in {"lite", "cuda"} THEN toxAvailable ELSE TRUE

Gate(out) ==
    CASE app = "lite" -> WithoutRaise(detect_toxicity(toxAvailable, out))
      [] app = "cuda" -> WithoutRaise(detect_toxicity_cuda(toxAvailable, out))
      [] OTHER -> inline_toxicity(out)

Labelled(r) == [raised |-> FALSE, label |-> r.label, confidence |-> r.confidence]

Sentiment(out, text) ==
    CASE app = "lite" -> Labelled(simple_sentiment(text))
      [] app = "cuda" -> Labelled(analyze_sentiment_cuda(nlpAvailable, out))
      [] app = "full_system" -> Labelled(analyze_sentiment(nlpAvailable, out, text))
      [] app = "cuda_simple_submit" -> inline_sentiment(out, FALSE)
      [] app = "cuda_simple_frontend" -> inline_sentiment(out, TRUE)
      [] app = "debug" -> IF toxAvailable THEN inline_sentiment(out, TRUE)
                          ELSE Labelled(mock_sentiment(text))

Summarized(s) == [raised |-> FALSE, summary |-> s]

Summary(out, text) ==
    CASE app = "lite" -> Summarized(simple_summary(text))
      [] app = "cuda" -> Summarized(summarize_text_cuda(nlpAvailable, out, text))
      [] app = "full_system" -> Summarized(summarize_text(nlpAvailable, out, text))
      [] app = "debug" -> IF toxAvailable THEN inline_summary(out, text)
                          ELSE Summarized(mock_summary(text))
      [] OTHER -> inline_summary(out, text)

\* The row the handler adds to the session.  The feedback table of models.py
\* has no is_toxic column: its rows are never marked toxic.
NewRow_keeps_text(id) ==
    [id |-> id, amendment_id |-> req.amendment_id,
     original_text |-> req.original_text,
     summary |-> Some(req.original_text), sentiment |-> sentiment,
     sentiment_confidence |-> confidence, is_toxic |-> is_toxic]

NewRow(id) ==
    CASE app = "minimal" ->
           [id |-> id, amendment_id |-> req.amendment_id,
            original_text |-> req.original_text,
            summary |-> Some(Str(<<"Mock", "summary">>)),
            sentiment |-> Some("positive"),
            sentiment_confidence |-> Some(Float(85)), is_toxic |-> FALSE]
      [] app = "cuda_simple_submit" /\ is_toxic ->
           [id |-> id, amendment_id |-> req.amendment_id,
            original_text |-> req.original_text,
            summary |-> Null, sentiment |-> Null,
            sentiment_confidence |-> Null, is_toxic |-> TRUE]
      [] app = "cuda_simple_submit" /\ ~is_toxic ->
           [id |-> id, amendment_id |-> req.amendment_id,
            original_text |-> req.original_text,
            summary |-> summary, sentiment |-> sentiment,
            sentiment_confidence |-> Some(Fmt4(confidence[1])), is_toxic |-> FALSE]
      [] OTHER ->
           [id |-> id, amendment_id |-> req.amendment_id,
            original_text |-> req.original_text,
            summary |-> summary, sentiment |-> sentiment,
            sentiment_confidence |-> confidence, is_toxic |-> FALSE]

\* Whether the database accepts the row: only the table of models.py declares
\* the foreign key, and only some engines enforce it.
ForeignKeyHolds(row) ==
    \/ app = "cuda_simple_submit"
    \/ ~fkEnforced
    \/ row.amendment_id \in amendments

\* The body of the 200 response.
RejectionResponse ==
    IF app = "cuda_simple_submit"
    THEN [NoResponse EXCEPT !.status = 200, !.toxic = Some(TRUE)]
    ELSE [NoResponse EXCEPT !.status = 200, !.success = Some(FALSE),
                            !.toxic = Some(TRUE), !.toxic_score = toxic_score]

SuccessResponse ==
    CASE app \in {"lite", "cuda"} ->
           [status |-> 200, success |-> Some(TRUE), toxic |-> Some(FALSE),
            toxic_score |-> toxic_score, feedback_id |-> feedback_id,
            sentiment |-> sentiment, confidence |-> confidence, summary |-> summary]
      [] app = "full_system" ->
           [status |-> 200, success |-> Some(TRUE), toxic |-> Null,
            toxic_score |-> Null, feedback_id |-> feedback_id,
            sentiment |-> sentiment, confidence |-> confidence, summary |-> summary]
      [] app = "minimal" ->
           [status |-> 200, success |-> Some(TRUE), toxic |-> Some(FALSE),
            toxic_score |-> Some(10), feedback_id |-> feedback_id,
            sentiment |-> Some("positive"), confidence |-> Some(Float(85)),
            summary |-> Some(Str(<<"Mock", "summary">>))]
      [] app = "cuda_simple_submit" ->
           [status |-> 200, success |-> Null, toxic |-> Some(FALSE),
            toxic_score |-> Null, feedback_id |-> Null,
            sentiment |-> sentiment, confidence |-> Some(Fmt4(confidence[1])),
            summary |-> summary]
      [] app = "cuda_simple_frontend" ->
           [status |-> 200, success |-> Some(TRUE), toxic |-> Some(FALSE),
            toxic_score |-> toxic_score, feedback_id |-> Some(1),
            sentiment |-> sentiment, confidence |-> confidence, summary |-> summary]
      [] app = "debug" ->
           [status |-> 200, success |-> Some(TRUE), toxic |-> Some(FALSE),
            toxic_score |-> IF toxAvailable THEN toxic_score ELSE Some(10),
            feedback_id |-> Some(1),
            sentiment |-> sentiment, confidence |-> confidence, summary |-> summary]

\* ---------------------------------------------------------------- actions
\* POST /amendments: the row gets the next id of the table.
create_amendment ==
    /\ pc = "idle"
    /\ Cardinality(amendments) < MaxAmendments
    /\ amendments' = amendments \cup {Cardinality(amendments) + 1}
    /\ UNCHANGED <<call, store, sessions, config, feedback, pc, req, locals, response, stage, history,
                   observed, written, rowsBefore, served, waiting, succeeded>>

\* raise HTTPException(...): the handler ends in an error response.
Abort(code, cause) ==
    /\ response' = HTTPException(code)
    /\ abortCause' = cause
    /\ stage' = "ABORTED"
    /\ pc' = "done"

\* A feedback request reaches the server (uvicorn accepts the connection),
\* whatever the event loop is doing.
Arrive ==
    /\ served + waiting + (IF pc = "idle" THEN 0 ELSE 1) < MaxRequests
    /\ waiting' = waiting + 1
    /\ UNCHANGED <<call, store, sessions, config, amendments, feedback, pc, req, locals, response,
                   stage, history, observed, written, rowsBefore, served, succeeded>>

\* The event loop starts the handler of a request that has arrived.  Every
\* handler is an `async def` whose body has no await: the loop is free to
\* start it only when no other handler is running.  FastAPI validates the
\* body against the handler's request model first and answers 422 without
\* calling the handler when it does not fit.
Submit ==
    /\ pc = "idle"
    /\ waiting > 0
    /\ waiting' = waiting - 1
    /\ served < MaxRequests
    /\ \E body \in Bodies :
         /\ req' = body
         /\ IF FeedbackCreate(body)
            THEN /\ pc' = Pipeline[1]
                 /\ stage' = IF Pipeline[1] = "check" THEN "NONE" ELSE "RECEIVED"
                 /\ UNCHANGED <<response, abortCause>>
            ELSE Abort(422, "validation")
    /\ rowsBefore' = feedback
    /\ UNCHANGED <<call, store, sessions, config, amendments, feedback, locals, history, toxOut,
                   toxFailed, sentCalls, sumCalls, written, served, succeeded>>

\* The request is cancelled (client gone, timeout).  asyncio delivers the
\* CancelledError at an await: the handler body has none, so the cancellation
\* reaches the request while its dependencies are resolved, before the first
\* statement of the body; get_db closes the session.
Cancel ==
    /\ pc = Pipeline[1]
    /\ history = <<>>
    /\ response' = NoResponse
    /\ abortCause' = "cancelled"
    /\ stage' = "ABORTED"
    /\ pc' = "done"
    /\ UNCHANGED <<call, store, sessions, config, amendments, feedback, req, locals, history, toxOut,
                   toxFailed, sentCalls, sumCalls, written, rowsBefore, served,
                   waiting, succeeded>>

\* "Verify amendment exists"
VerifyAmendment ==
    /\ pc = "check"
    /\ IF req.amendment_id \in amendments
       THEN /\ pc' = After("check")
            /\ stage' = "RECEIVED"
            /\ history' = Append(history, "check")
            /\ UNCHANGED <<response, abortCause>>
       ELSE /\ Abort(404, "not_found")
            /\ UNCHANGED history
    /\ UNCHANGED <<call, store, sessions, config, amendments, feedback, req, locals, toxOut, toxFailed,
                   sentCalls, sumCalls, written, rowsBefore, served, waiting, succeeded>>

\* "Step 1: Run toxicity detection first"
ToxicityGate ==
    /\ pc = "gate"
    /\ \E out \in IF ClassifierAsked THEN ToxOutcomes
                  ELSE {[raised |-> TRUE, toxicity |-> 0, insult |-> 0]} :
         LET g == Gate(out) IN
         /\ toxOut' = IF ClassifierAsked /\ ~out.raised THEN Some(out) ELSE Null
         /\ toxFailed' = (~ClassifierAsked \/ out.raised)
         /\ IF g.raised
            THEN /\ Abort(500, "ml")
                 /\ UNCHANGED <<is_toxic, toxic_score, history>>
            ELSE /\ is_toxic' = g.is_toxic
                 /\ toxic_score' = Some(g.score)
                 /\ stage' = "TOXICITY_CHECKED"
                 /\ history' = Append(history, "gate")
                 /\ pc' = IF g.is_toxic THEN "reject" ELSE After("gate")
                 /\ UNCHANGED <<response, abortCause>>
    /\ UNCHANGED <<call, store, sessions, config, amendments, feedback, req, sentiment, confidence, summary,
                   feedback_id, sentCalls, sumCalls, written, rowsBefore, served, waiting, succeeded>>

\* `if is_toxic:` the comment is not processed further.
Reject ==
    /\ pc = "reject"
    /\ stage' = "REJECTED"
    /\ pc' = AfterReject
    /\ UNCHANGED <<call, store, sessions, config, amendments, feedback, req, locals, response, history,
                   observed, written, rowsBefore, served, waiting, succeeded>>

\* Sentiment analysis of a comment that passed the gate.
Classify ==
    /\ pc = "sentiment"
    /\ \E out \in SentOutcomes :
         LET c == Sentiment(out, req.original_text) IN
         /\ sentCalls' = sentCalls + 1
         /\ IF c.raised
            THEN /\ Abort(500, "ml")
                 /\ UNCHANGED <<sentiment, confidence, history>>
            ELSE /\ sentiment' = Some(c.label)
                 /\ confidence' = Some(c.confidence)
                 /\ stage' = "CLASSIFIED"
                 /\ history' = Append(history, "sentiment")
                 /\ pc' = After("sentiment")
                 /\ UNCHANGED <<response, abortCause>>
    /\ UNCHANGED <<call, store, sessions, config, amendments, feedback, req, is_toxic, toxic_score, summary,
                   feedback_id, toxOut, toxFailed, sumCalls, written, rowsBefore,
                   served, waiting, succeeded>>

\* Summarization of a comment that passed the gate.
Summarize ==
    /\ pc = "summary"
    /\ \E out \in SumOutcomes :
         LET s == Summary(out, req.original_text) IN
         /\ sumCalls' = sumCalls + 1
         /\ IF s.raised
            THEN /\ Abort(500, "ml")
                 /\ UNCHANGED <<summary, history>>
            ELSE /\ summary' = Some(s.summary)
                 /\ stage' = "SUMMARIZED"
                 /\ history' = Append(history, "summary")
                 /\ pc' = After("summary")
                 /\ UNCHANGED <<response, abortCause>>
    /\ UNCHANGED <<call, store, sessions, config, amendments, feedback, req, is_toxic, toxic_score,
                   sentiment, confidence, feedback_id, toxOut, toxFailed, sentCalls,
                   written, rowsBefore, served, waiting, succeeded>>

\* The table after a commit that raised: the transaction is rolled back
\* (db.rollback() in app_cuda_simple, db.close() of get_db elsewhere), so
\* nothing of the row stays.
after_failed_commit_keeps_part(table, row) ==
    table \cup {[row EXCEPT !.summary = Null]}

after_failed_commit(table, row) == table

\* Whether the handler yields to the event loop inside db.add / db.commit /
\* db.refresh: the Session of sessionmaker(...) is synchronous, these calls
\* return without an await.
record_awaits_commit_async == TRUE

record_awaits_commit == FALSE

\* How the write may end.
RecordOutcomes ==
    {"committed", "raised"}
    \cup (IF record_awaits_commit THEN {"cancelled"} ELSE {})

\* db.add(row); db.commit(); db.refresh(row): the commit writes the row or
\* raises, and then nothing of the row is stored.
Record ==
    /\ pc = "persist"
    /\ \E outcome \in RecordOutcomes :
         LET row == NewRow(Cardinality(feedback) + 1) IN
         CASE outcome = "committed" /\ ForeignKeyHolds(row) ->
              /\ feedback' = feedback \cup {row}
              /\ feedback_id' = Some(row.id)
              /\ written' = written \cup {row.id}
              /\ stage' = "RECORDED"
              /\ history' = Append(history, "persist")
              /\ pc' = After("persist")
              /\ UNCHANGED <<response, abortCause>>
           [] outcome = "cancelled" /\ ForeignKeyHolds(row) ->
              /\ feedback' = feedback \cup {row}
              /\ written' = written \cup {row.id}
              /\ response' = NoResponse
              /\ abortCause' = "cancelled"
              /\ stage' = "ABORTED"
              /\ pc' = "done"
              /\ UNCHANGED <<feedback_id, history>>
           [] OTHER ->
              /\ Abort(500, "persistence")
              /\ feedback' = after_failed_commit(feedback, row)
              /\ UNCHANGED <<feedback_id, written, history>>
    /\ UNCHANGED <<call, store, sessions, config, amendments, req, is_toxic, toxic_score, sentiment,
                   confidence, summary, toxOut, toxFailed, sentCalls, sumCalls,
                   rowsBefore, served, waiting, succeeded>>

\* return APIResponse(...)
Respond ==
    /\ pc = "respond"
    /\ response' = IF is_toxic THEN RejectionResponse ELSE SuccessResponse
    /\ succeeded' = IF is_toxic THEN succeeded ELSE succeeded + 1
    /\ pc' = "done"
    /\ UNCHANGED <<call, store, sessions, config, amendments, feedback, req, locals, stage, history,
                   observed, written, rowsBefore, served, waiting>>

\* The response has been sent; the handler's frame is gone.
Close ==
    /\ pc = "done"
    /\ pc' = "idle"
    /\ served' = served + 1
    /\ req' = NoRequest
    /\ is_toxic' = FALSE
    /\ toxic_score' = Null
    /\ sentiment' = Null
    /\ confidence' = Null
    /\ summary' = Null
    /\ feedback_id' = Null
    /\ response' = NoResponse
    /\ stage' = "NONE"
    /\ history' = <<>>
    /\ toxOut' = Null
    /\ toxFailed' = FALSE
    /\ sentCalls' = 0
    /\ sumCalls' = 0
    /\ abortCause' = "none"
    /\ written' = {}
    /\ rowsBefore' = {}
    /\ UNCHANGED <<call, store, sessions, config, amendments, feedback, waiting, succeeded>>

Next ==
    \/ create_amendment
    \/ Arrive
    \/ Submit
    \/ Cancel
    \/ VerifyAmendment
    \/ ToxicityGate
    \/ Reject
    \/ Classify
    \/ Summarize
    \/ Record
    \/ Respond
    \/ Close

Spec == Init /\ [][Next]_vars

\* ------------------------------------------- the text functions, called alone
\* Second specification: one behaviour is one call of one summarization or
\* sentiment function on one text, with the model loaded or not, answering or
\* raising.
Summarizers ==
    {"summarize_text_real", "demo_summarize_text", "summarize_text",
     "simple_summary", "summarize_text_cuda"}
Classifiers ==
    {"analyze_sentiment", "analyze_sentiment_cuda", "robust_predict_sentiment",
     "enhanced_predict_sentiment", "simple_sentiment"}
\* The functions that never ask a model.
RuleBased == {"simple_summary", "enhanced_predict_sentiment", "simple_sentiment"}

Laws(n, first) == Str([i \in 1..n |-> IF i = 1 THEN first ELSE "laws"])
Pad(s) == [s EXCEPT !.pre = " ", !.tail = " "]

CallLengths ==
    {0, 2, MAX_SUMMARY_WORDS, MAX_SUMMARY_WORDS + 1, LongLen, FALLBACK_WORDS + 1}
SummaryTexts ==
    {Laws(n, "good") : n \in CallLengths}
    \cup {Pad(Laws(n, "good")) : n \in {0, 2, MAX_SUMMARY_WORDS + 1}}
SentimentTexts ==
    {Str(<<"laws">>),
     Str(<<"good", "poor">>),
     Str(<<"poor", "laws">>),
     Str(<<"laws", "laws", "laws", "laws">>),
     Str(<<"good", "poor", "laws", "laws">>),
     Str(<<"good", "great", "poor", "bad">>),
     Str(<<"Great", "job", "laws", "laws", "laws">>),
     Str(<<"good", "points", "poor", "bad", "laws">>),
     Str(<<"Unhelpful">>),
     Str(<<"not", "Helpful", "laws", "laws">>)}
CallTexts == SummaryTexts \cup SentimentTexts \cup Texts

\* The summarizer may also answer with more than max_words words.
CallSumOutcomes ==
    SumOutcomes
    \cup {[raised |-> FALSE,
           summary_text |-> Str([i \in 1..(MAX_SUMMARY_WORDS + 1) |-> "gist"])]}

CallArgs(f) ==
    CASE f = "enhanced_decision" ->
           {[positive_count |-> p, negative_count |-> n, word_count |-> w] :
              p \in 0..MaxHits, n \in 0..MaxHits, w \in 0..MaxWords}
      [] f \in RuleBased ->
           {[text |-> t, loaded |-> FALSE, out |-> NoOutcome] : t \in CallTexts}
      [] OTHER ->
           {[text |-> t, loaded |-> FALSE, out |-> NoOutcome] : t \in CallTexts}
           \cup {[text |-> t, loaded |-> TRUE, out |-> o] :
                   t \in CallTexts,
                   o \in IF f \in Summarizers THEN CallSumOutcomes ELSE SentOutcomes}

CallInit ==
    /\ app = "lite"
    /\ toxAvailable = FALSE
    /\ nlpAvailable = FALSE
    /\ fkEnforced = TRUE
    /\ NoTraffic
    /\ fn \in Summarizers \cup Classifiers \cup {"enhanced_decision"}
    /\ arg \in CallArgs(fn)
    /\ result = Null

\* Whether the call hands the text to the summarization model.
SummarizerAsked(f, a) ==
    CASE f \in {"summarize_text_real", "demo_summarize_text"} ->
           ~IsBlank(a.text) /\ Len(Split(Strip(a.text))) > MAX_SUMMARY_WORDS /\ a.loaded
      [] f = "summarize_text" ->
           Len(Split(a.text)) > MAX_SUMMARY_WORDS /\ a.loaded
      [] f = "summarize_text_cuda" ->
           a.loaded /\ Len(Split(a.text)) >= MIN_WORDS_CUDA
      [] f = "simple_summary" -> FALSE

\* The call of f returns v.
Returns(f, v) ==
    /\ fn = f
    /\ result = Null
    /\ result' = Some(v)
    /\ UNCHANGED <<fn, arg, store, sessions, config, amendments, feedback, pc, req, locals, response,
                   stage, history, observed, written, rowsBefore, served, waiting,
                   succeeded>>

ReturnsSummary(f, s) ==
    Returns(f, [raised |-> FALSE, summary |-> s, invoked |-> SummarizerAsked(f, arg)])

ReturnsLabel(f, label, conf) ==
    Returns(f, [raised |-> FALSE, label |-> label, confidence |-> conf])

call_summarize_text_real ==
    ReturnsSummary("summarize_text_real",
                   summarize_text_real(arg.loaded, arg.out, arg.text))

call_demo_summarize_text ==
    ReturnsSummary("demo_summarize_text",
                   demo_summarize_text(arg.loaded, arg.out, arg.text))

call_summarize_text ==
    ReturnsSummary("summarize_text", summarize_text(arg.loaded, arg.out, arg.text))

call_simple_summary ==
    ReturnsSummary("simple_summary", simple_summary(arg.text))

call_summarize_text_cuda ==
    ReturnsSummary("summarize_text_cuda",
                   summarize_text_cuda(arg.loaded, arg.out, arg.text))

call_analyze_sentiment ==
    LET r == analyze_sentiment(arg.loaded, arg.out, arg.text)
    IN ReturnsLabel("analyze_sentiment", r.label, Some(r.confidence))

call_analyze_sentiment_cuda ==
    LET r == analyze_sentiment_cuda(arg.loaded, arg.out)
    IN ReturnsLabel("analyze_sentiment_cuda", r.label, Some(r.confidence))

call_simple_sentiment ==
    LET r == simple_sentiment(arg.text)
    IN ReturnsLabel("simple_sentiment", r.label, Some(r.confidence))

call_robust_predict_sentiment ==
    ReturnsLabel("robust_predict_sentiment",
                 robust_predict_sentiment(arg.loaded, arg.out, arg.text), Null)

call_enhanced_predict_sentiment ==
    ReturnsLabel("enhanced_predict_sentiment",
                 enhanced_predict_sentiment(arg.text), Null)

call_enhanced_decision ==
    ReturnsLabel("enhanced_decision",
                 enhanced_decision(arg.positive_count, arg.negative_count,
                                   arg.word_count), Null)

CallNext ==
    \/ call_summarize_text_real
    \/ call_demo_summarize_text
    \/ call_summarize_text
    \/ call_simple_summary
    \/ call_summarize_text_cuda
    \/ call_analyze_sentiment
    \/ call_analyze_sentiment_cuda
    \/ call_simple_sentiment
    \/ call_robust_predict_sentiment
    \/ call_enhanced_predict_sentiment
    \/ call_enhanced_decision

CallSpec == CallInit /\ [][CallNext]_vars

\* -------------------------------------------------------------- StoreSpec
\* The two tables and the handlers that create and list their rows.  One
\* behaviour is one deployment: `app` names the application.  Here a row of
\* amendments carries its columns (Spec keeps the key alone), and a row of
\* feedback carries the columns the listings read; the analysis columns are
\* the subject of Spec.
MaxListed == 2          \* amendments created in one behaviour
MaxRows == 2            \* feedback rows written in one behaviour
MaxClock == 1           \* ticks of the clock
MaxSessions == 1        \* sessions left open at one time

StoreApps == {"working", "full_system", "lite", "minimal", "cuda_simple", "debug"}

traffic == <<pc, req, locals, response, stage, history, observed, written,
             rowsBefore, served, waiting, succeeded>>

StoreInit ==
    /\ app \in StoreApps
    /\ toxAvailable = TRUE
    /\ nlpAvailable = TRUE
    /\ fkEnforced = TRUE
    /\ NoTraffic
    /\ fn = "none"
    /\ arg = NoCall
    /\ result = Null

\* Bodies of POST /amendments that pass AmendmentCreate (title of 1..500
\* characters, description of at least one).
AmendmentBodies == [title : {"Road", "Food"}, description : {"Bill"}]

AmendmentIds == {a.id : a \in amendments}

\* Column(DateTime, default=datetime.utcnow): the clock is read when the row
\* is inserted.
created_at_default_truncated == now - (now % 2)
created_at_default == now

Perms(S) ==
    {p \in [1..Cardinality(S) -> S] :
        \A i, j \in 1..Cardinality(S) : i /= j => p[i] /= p[j]}

\* query.order_by(created_at.desc()).all(): the rows, newest first; rows of
\* one instant come in any order.
order_by_created_at_desc(S) ==
    {p \in Perms(S) : \A i \in 1..(Cardinality(S) - 1) :
        p[i].created_at >= p[i + 1].created_at}

\* query.all() without order_by: the database returns the rows in an order
\* of its choice.
all_rows(S) == Perms(S)

\* db: Session = Depends(get_db): get_db closes the session in its finally
\* when the request is over.
Depends_get_db == UNCHANGED sessions

\* db = next(get_db()): nothing resumes the generator when the request is
\* over; the session the handler has queried with stays open until the
\* garbage collector reclaims it.
next_get_db ==
    /\ sessions < MaxSessions
    /\ sessions' = sessions + 1

get_db == IF app = "cuda_simple" THEN next_get_db ELSE Depends_get_db

Tick ==
    /\ now < MaxClock
    /\ now' = now + 1
    /\ UNCHANGED <<call, config, traffic, amendments, feedback, sessions, listing,
                   created>>

\* A response of a store handler: what was asked, for which id, the status
\* and the rows returned, with the sizes of the tables the handler found.
Listed(of, id, status, rows) ==
    [of |-> of, id |-> id, status |-> status, rows |-> rows,
     amendments |-> Cardinality(amendments), feedback |-> Cardinality(feedback)]

\* POST /amendments of app_working (the other applications store the same
\* two columns): add, commit, refresh, answer with the row.
working_create_amendment ==
    /\ Cardinality(amendments) < MaxListed
    /\ \E amendment \in AmendmentBodies :
         LET db_amendment ==
                 [id |-> Cardinality(amendments) + 1,
                  title |-> amendment.title,
                  description |-> amendment.description,
                  created_at |-> created_at_default]
         IN /\ amendments' = amendments \cup {db_amendment}
            /\ created' = Append(created,
                   [id |-> db_amendment.id, title |-> amendment.title,
                    description |-> amendment.description, requested |-> now])
            /\ listing' = Listed("created", db_amendment.id, 200, <<db_amendment>>)
    /\ get_db
    /\ UNCHANGED <<call, config, traffic, feedback, now>>

\* POST /feedback up to its commit, for an amendment that exists (app_minimal
\* and /submit_feedback of app_cuda_simple do not look the amendment up).
feedback_committed ==
    /\ app /= "debug"
    /\ Cardinality(feedback) < MaxRows
    /\ \E aid \in 1..MaxListed :
         /\ aid \in AmendmentIds \/ app \in {"minimal", "cuda_simple"}
         /\ feedback' = feedback \cup
              {[id |-> Cardinality(feedback) + 1, amendment_id |-> aid,
                original_text |-> ShortText, created_at |-> created_at_default]}
         /\ listing' = Listed("recorded", aid, 200, <<>>)
    /\ UNCHANGED <<call, config, traffic, amendments, sessions, now, created>>

\* GET /amendments.  app_minimal and app_lite_toxicity build
\* AmendmentListResponse(data=...) without its required field amendments:
\* the ValidationError is caught and answered with 500.
get_amendments ==
    /\ \/ /\ app \in {"working", "full_system", "debug"}
          /\ \E rows \in order_by_created_at_desc(amendments) :
               listing' = Listed("amendments", 0, 200, rows)
       \/ /\ app = "lite"
          /\ listing' = Listed("amendments", 0, 500, <<>>)
       \/ /\ app = "minimal"
          /\ listing' = Listed("amendments", 0, 500, <<>>)
       \/ /\ app = "cuda_simple"
          /\ \E rows \in all_rows(amendments) :
               listing' = Listed("amendments", 0, 200, rows)
    /\ get_db
    /\ UNCHANGED <<call, config, traffic, amendments, feedback, now, created>>

\* GET /feedback/{amendment_id}.  app_lite_toxicity builds
\* FeedbackListResponse(data=...) without its required field feedback.
get_feedback ==
    /\ app \in {"working", "full_system", "lite"}
    /\ \E amendment_id \in 1..MaxListed :
         IF amendment_id \notin AmendmentIds
         THEN listing' = Listed("feedback", amendment_id, 404, <<>>)
         ELSE IF app = "lite"
         THEN listing' = Listed("feedback", amendment_id, 500, <<>>)
         ELSE \E rows \in order_by_created_at_desc(
                              {f \in feedback : f.amendment_id = amendment_id}) :
                  listing' = Listed("feedback", amendment_id, 200, rows)
    /\ UNCHANGED <<call, config, traffic, amendments, feedback, sessions, now,
                   created>>

\* GET /test-db of app_debug: db = next(get_db()), count the amendments.
test_database ==
    /\ app = "debug"
    /\ next_get_db
    /\ listing' = Listed("count", 0, 200, <<Cardinality(amendments)>>)
    /\ UNCHANGED <<call, config, traffic, amendments, feedback, now, created>>

\* The garbage collector reclaims the sessions that no frame refers to.
collect ==
    /\ sessions > 0
    /\ sessions' = 0
    /\ UNCHANGED <<call, config, traffic, amendments, feedback, store>>

StoreNext ==
    \/ Tick
    \/ working_create_amendment
    \/ feedback_committed
    \/ get_amendments
    \/ get_feedback
    \/ test_database
    \/ collect

StoreSpec == StoreInit /\ [][StoreNext]_vars


\* ----------------------------------------------------------------- claims
RunsGate == \E k \in 1..Len(Pipeline) : Pipeline[k] = "gate"
Rank(s) ==
    CASE s = "check" -> 1 [] s = "gate" -> 2 [] s = "sentiment" -> 3
      [] s = "summary" -> 4 [] s = "persist" -> 5
Finished == pc = "done"
\* The body being served is well formed: amendment_id above 0, original_text
\* of 1 to 5000 characters (the malformed bodies are the subject of C21).
WellFormed == FeedbackBase(req)

\* C1: whenever the toxicity classifier has answered with scores, the verdict
\* is_toxic is true exactly when the gate score is above 0.6 (strictly), and
\* the gate score is one of the scores the classifier returned.
C1_StrictThreshold ==
    toxOut /= Null =>
        /\ toxic_score /= Null
        /\ is_toxic = (toxic_score[1] > TOXICITY_THRESHOLD)
        /\ toxic_score[1] \in {toxOut[1].toxicity, toxOut[1].insult}

\* A submission scored exactly 0.6 that was let through and answered.
C1_Witness ==
    /\ Finished
    /\ toxOut /= Null
    /\ toxic_score = Some(TOXICITY_THRESHOLD)
    /\ ~is_toxic
    /\ response.success = Some(TRUE)

\* C2: a submission the gate found toxic never runs the sentiment classifier
\* or the summarizer; in a handler that has the gate they run only after the
\* gate has returned the verdict not toxic.
C2_ShortCircuit ==
    /\ is_toxic => (sentCalls = 0 /\ sumCalls = 0)
    /\ (RunsGate /\ (sentCalls > 0 \/ sumCalls > 0)) =>
          (toxic_score /= Null /\ ~is_toxic
           /\ \E i \in 1..Len(history) : history[i] = "gate")

\* A rejected submission that has been answered.
C2_Witness ==
    /\ Finished
    /\ is_toxic
    /\ response.status = 200
    /\ response.toxic = Some(TRUE)

\* C3: every stored Feedback row marked is_toxic has null summary, sentiment
\* and sentiment confidence.
C3_ToxicRowsAreBare ==
    \A f \in feedback :
        f.is_toxic =>
            (f.summary = Null /\ f.sentiment = Null /\ f.sentiment_confidence = Null)

\* The store holds a row marked toxic.
C3_Witness == \E f \in feedback : f.is_toxic /\ f.id \in written

C5_UnknownAmendment ==
    (Finished /\ req.amendment_id \notin amendments
       /\ abortCause \in {"none", "not_found"}) =>
        (response.status = 404 /\ feedback = rowsBefore)

\* C6: when the toxicity classifier is unavailable or raises on a well-formed
\* submission, the gate answers
\* (not toxic, 0.0) and the submission goes on to the sentiment stage.
C6_FailOpen ==
    (toxFailed /\ WellFormed) =>
        /\ toxic_score = Some(0)
        /\ ~is_toxic
        /\ abortCause /= "ml"
        /\ Finished => sentCalls > 0

\* C7: no well-formed submission ends in an error response because an ML
\* stage failed:
\* an error response comes from an unknown amendment or a failed write.
C7_MLNeverAborts ==
    (Finished /\ response.status /= 200 /\ abortCause /= "cancelled"
     /\ WellFormed) =>
        abortCause \in {"not_found", "persistence"}

\* C8: the stages a submission has completed are in the order amendment
\* check, toxicity gate, sentiment, summarization, persistence; the handlers
\* of app_lite_toxicity and app_cuda write only after all four earlier stages,
\* and no handler with a summarization stage writes the row of an accepted
\* comment before the summary is there.
C8_StageOrder ==
    /\ \A i, j \in 1..Len(history) :
         i < j => Rank(history[i]) < Rank(history[j])
    /\ \A i \in 1..Len(history) :
         (history[i] = "persist" /\ ~is_toxic
            /\ \E k \in 1..Len(Pipeline) : Pipeline[k] = "summary") =>
              (summary /= Null /\ \E j \in 1..(i - 1) : history[j] = "summary")
    /\ (app \in {"lite", "cuda"} /\ stage = "RECORDED") =>
         history = <<"check", "gate", "sentiment", "summary", "persist">>

\* app_lite_toxicity has run all five stages in order.
C8_Witness ==
    /\ app = "lite"
    /\ history = <<"check", "gate", "sentiment", "summary", "persist">>
    /\ written /= {}

\* C9: a validated submission whose model calls returned and whose write did
\* not fail ends in RECORDED, with its outcome written.
C9_EndsRecorded ==
    (Finished /\ abortCause = "none" /\ req.amendment_id \in amendments
     /\ WellFormed) =>
        (stage = "RECORDED" /\ written /= {})

\* C10: a success response (success = true, toxic = false) to a well-formed
\* submission describes a row
\* this submission wrote: same id, non-null and equal summary, sentiment and
\* confidence, and a reported toxicity score of at most 0.6.
C10_SuccessIsRecorded ==
    (Finished /\ response.success = Some(TRUE) /\ response.toxic = Some(FALSE)
     /\ WellFormed) =>
        /\ \E f \in feedback \ rowsBefore :
             /\ f.id \in written
             /\ response.feedback_id = Some(f.id)
             /\ f.summary /= Null
             /\ f.sentiment /= Null
             /\ f.sentiment_confidence /= Null
             /\ f.summary = response.summary
             /\ f.sentiment = response.sentiment
             /\ f.sentiment_confidence = response.confidence
        /\ response.toxic_score /= Null
        /\ response.toxic_score[1] <= TOXICITY_THRESHOLD

\* C11: whenever the server is idle, the Feedback rows of accepted comments
\* are as many as the submissions answered with success, ids are distinct, and
\* every row that was there when a request arrived is still there unchanged.
C11_ExactlyOnce ==
    /\ pc = "idle" =>
         Cardinality({f \in feedback : ~f.is_toxic}) = succeeded
    /\ \A f, g \in feedback : f.id = g.id => f = g
    /\ pc /= "idle" => rowsBefore \subseteq feedback

\* C12: every stored Feedback row is whole (its id, amendment, text and, for
\* an accepted comment, summary, sentiment and confidence; the row a running
\* request wrote is the row its handler built), and a write that failed ends
\* the request in a 500 response with the table as the request found it.
C12_AtomicWrite ==
    /\ \A f \in feedback :
         /\ f.id \in 1..Cardinality(feedback)
         /\ [amendment_id |-> f.amendment_id,
             original_text |-> f.original_text] \in Bodies
         /\ f.is_toxic \/ (f.summary /= Null /\ f.sentiment /= Null
                            /\ f.sentiment_confidence /= Null)
         /\ f.id \in written => f = NewRow(f.id)
    /\ abortCause = "persistence" =>
         (response.status = 500 /\ written = {} /\ feedback = rowsBefore)

\* app_full_system has classified and summarized a comment for an existing
\* amendment, and the commit raised.
C12_Witness ==
    /\ Finished
    /\ app = "full_system"
    /\ abortCause = "persistence"
    /\ req.amendment_id \in amendments
    /\ summary /= Null

C14_Independent ==
    (waiting > 0 /\ pc = "summary" /\ WellFormed) => ENABLED Submit

\* ------------------------------------------ claims about the text functions
Called(fs) == fn \in fs /\ result /= Null
Returned == result[1]
\* The summarizers that apply the 15-word rule.
RuleOfFifteen ==
    {"summarize_text_real", "demo_summarize_text", "summarize_text", "simple_summary"}
ModelMissing == ~arg.loaded \/ arg.out.raised

C16_LongTextsShrink ==
    (Called({"summarize_text_real", "demo_summarize_text"}) /\ Len(Split(arg.text)) > MAX_SUMMARY_WORDS) =>
        /\ Returned.summary /= arg.text
        /\ Len(Returned.summary.words) <= Len(Split(arg.text))

\* C17: for a text of more than 15 words, when the model is not there or
\* raises, the summary of summarize_text_real, of summarize_text of app_demo
\* and of summarize_text of app_full_system is the first 50 words joined by
\* single spaces and followed by "...", and the call does not raise.
C17_TruncationFallback ==
    (Called({"summarize_text_real", "demo_summarize_text", "summarize_text"})
       /\ Len(Split(arg.text)) > MAX_SUMMARY_WORDS
       /\ ModelMissing) =>
        /\ ~Returned.raised
        /\ Returned.summary =
             [pre |-> "", words |-> Prefix(arg.text.words, FALLBACK_WORDS),
              chars |-> 0, tail |-> "..."]

\* C18: for an empty or whitespace-only text the summary of
\* summarize_text_real, of summarize_text of app_demo and of summarize_text of
\* app_full_system is the sentinel "No content to summarize"; the call does
\* not raise or ask the model.
C18_BlankGivesSentinel ==
    (Called({"summarize_text_real", "demo_summarize_text", "summarize_text"})
       /\ Len(Split(arg.text)) = 0
       /\ arg.text.pre \in {"", " "} /\ arg.text.tail \in {"", " "}) =>
        /\ ~Returned.raised
        /\ ~Returned.invoked
        /\ Returned.summary = Str(<<"No", "content", "to", "summarize">>)

\* The label of the keyword strategy for the same text: the keyword branch
\* of the function itself, and simple_sentiment of app_lite_toxicity for
\* app_cuda, which has no keyword lists of its own.
KeywordLabel(f, text) ==
    CASE f = "analyze_sentiment" -> analyze_sentiment(FALSE, NoOutcome, text).label
      [] f = "robust_predict_sentiment" ->
           IF Len(Split(text)) = 0 THEN "NEUTRAL" ELSE predict_sentiment_mock(text)
      [] f = "analyze_sentiment_cuda" -> simple_sentiment(text).label

\* C19: when the sentiment model is not loaded or raises, the classifier
\* returns, without raising, the label the keyword strategy gives the text
\* (and, in app_full_system, its confidence).
C19_KeywordFallback ==
    (Called({"analyze_sentiment", "analyze_sentiment_cuda",
             "robust_predict_sentiment"}) /\ ModelMissing) =>
        /\ ~Returned.raised
        /\ Returned.label = KeywordLabel(fn, arg.text)
        /\ fn = "analyze_sentiment" =>
             Returned.confidence =
                 Some(analyze_sentiment(FALSE, NoOutcome, arg.text).confidence)

\* The counts and the word count the decision of a call was taken on.
Hits ==
    IF fn = "enhanced_decision"
    THEN [p |-> arg.positive_count, n |-> arg.negative_count, w |-> arg.word_count]
    ELSE [p |-> enhanced_positive_count(arg.text),
          n |-> enhanced_negative_count(arg.text),
          w |-> Len(Split(arg.text))]

C21_MalformedRefused ==
    (pc /= "idle" /\ ~FeedbackBase(req)
     /\ app \in {"lite", "full_system", "minimal", "cuda"}) =>
        /\ toxOut = Null
        /\ sentCalls = 0
        /\ sumCalls = 0
        /\ written = {}
        /\ feedback = rowsBefore

\* C22: every row of table feedback names an amendment that is in table
\* amendments.
C22_ReferentialIntegrity ==
    \A f \in feedback : f.amendment_id \in amendments

\* C23: every stored row of a well-formed submission that is not toxic has a sentiment among the
\* lower-case labels positive, negative, neutral and a sentiment confidence
\* that is a number between 0 and 1.
C23_FieldDomains ==
    \A f \in feedback :
        (~f.is_toxic /\ FeedbackBase([amendment_id |-> f.amendment_id,
                                      original_text |-> f.original_text])) =>
            /\ f.sentiment \in {Some("positive"), Some("negative"), Some("neutral")}
            /\ f.sentiment_confidence /= Null
            /\ f.sentiment_confidence[1].kind = "float"
            /\ f.sentiment_confidence[1].v \in 0..100

\* C24: whenever the toxicity classifier has answered a well-formed
\* submission with sub-category scores, the gate score (compared with the threshold and reported as
\* toxic_score) is the largest of the scores it returned, in app_lite_toxicity,
\* app_cuda and /feedback of app_cuda_simple.
C24_GateScoreIsMax ==
    (toxOut /= Null /\ toxic_score /= Null /\ WellFormed
     /\ app \in {"lite", "cuda", "cuda_simple_frontend"}) =>
        toxic_score[1] = Max2(toxOut[1].toxicity, toxOut[1].insult)

\* C25: a listing of amendments by app_full_system, app_minimal or
\* app_cuda_simple succeeds and holds every amendment that was in the table
\* when it was asked for, ordered by created_at from newest to oldest.
C25_ListingNewestFirst ==
    (listing.of = "amendments"
     /\ app \in {"full_system", "minimal", "cuda_simple"}) =>
        /\ listing.status = 200
        /\ listing.rows \in order_by_created_at_desc(
               {a \in amendments : a.id <= listing.amendments})

\* C26: a listing of the feedback of an amendment id by app_full_system or
\* app_lite_toxicity answers 404 when no amendment has that id, and otherwise
\* succeeds with exactly the rows of that amendment, newest first.
C26_FeedbackOfAmendment ==
    (listing.of = "feedback" /\ app \in {"full_system", "lite"}) =>
        IF listing.id <= listing.amendments
        THEN /\ listing.status = 200
             /\ listing.rows \in order_by_created_at_desc(
                    {f \in feedback : /\ f.amendment_id = listing.id
                                      /\ f.id <= listing.feedback})
        ELSE listing.status = 404 /\ listing.rows = <<>>

\* C27: in app_working, a listing of amendments that follows successful
\* creations holds, for each of them, exactly one record with the id the
\* creation answered, with the title and the description of its request and
\* a created_at not earlier than the request, whatever was created later.
C27_RoundTrip ==
    (app = "working" /\ listing.of = "amendments") =>
        /\ listing.status = 200
        /\ \A i \in 1..listing.amendments :
             LET hits == {k \in 1..Len(listing.rows) :
                             listing.rows[k].id = created[i].id}
             IN /\ Cardinality(hits) = 1
                /\ \A k \in hits :
                     /\ listing.rows[k].title = created[i].title
                     /\ listing.rows[k].description = created[i].description
                     /\ listing.rows[k].created_at >= created[i].requested

\* app_working has listed two amendments of different titles, the first of
\* them created after the clock had advanced.
C27_Witness ==
    /\ app = "working"
    /\ listing.of = "amendments"
    /\ listing.amendments = 2
    /\ Len(listing.rows) = 2
    /\ listing.rows[1].title /= listing.rows[2].title
    /\ created[1].requested > 0

\* C30: no database session is open once its request is over.
C30_SessionsClosed == sessions = 0

\* text.lower() of a whole text.
Lowered(text) == [text EXCEPT !.words = [i \in DOMAIN text.words |-> Lower(text.words[i])]]

RECURSIVE Weigh(_, _, _)
\* The sum, over the entries of a list that are contained in the text, of
\* the weight of the list.
Weigh(found, entries, weight) ==
    IF entries = {} THEN 0
    ELSE LET e == CHOOSE x \in entries : TRUE
         IN (IF e \in found THEN weight ELSE 0) + Weigh(found, entries \ {e}, weight)

\* C28: predict_sentiment of app_enhanced decides on a positive count that is
\* the number of positive words found in the lower-cased text as substrings
\* plus 2 for each positive phrase found, and on the negative count alike
\* (the words of a list counted with its two-word entries); no entry is in a
\* positive and in a negative list; the label of a text is the label of the
\* text in lower case.
C28_KeywordCounts ==
    Called({"enhanced_predict_sentiment"}) =>
        LET lower == Lowered(arg.text)
            words(kws) == {kw \in kws : \E i \in 1..Len(lower.words) :
                              kw \in Parts(lower.words[i])}
            phrases(phs) == {ph \in phs : ContainsPhrase(lower, ph)}
            positive_count ==
                Weigh(words(enhanced_positive_words), enhanced_positive_words, 1)
                + Weigh(phrases(enhanced_positive_phrases),
                        enhanced_positive_phrases, 2)
            negative_count ==
                Weigh(words(enhanced_negative_words), enhanced_negative_words, 1)
                + Weigh(phrases(enhanced_negative_word_pairs),
                        enhanced_negative_word_pairs, 1)
                + Weigh(phrases(enhanced_negative_phrases),
                        enhanced_negative_phrases, 2)
        IN /\ enhanced_positive_words \cap enhanced_negative_words = {}
           /\ enhanced_positive_phrases
                \cap (enhanced_negative_phrases \cup enhanced_negative_word_pairs) = {}
           /\ Hits.p = positive_count
           /\ Hits.n = negative_count
           /\ ~IsBlank(arg.text) =>
                Returned.label =
                    enhanced_decision(positive_count, negative_count, Hits.w)
           /\ Returned.label = enhanced_predict_sentiment(lower)

\* predict_sentiment has labelled "not Helpful laws laws": two positive
\* words found inside "helpful", the negative entry "not helpful" found as a
\* word and as a phrase.
C28_Witness ==
    /\ Called({"enhanced_predict_sentiment"})
    /\ arg.text /= Lowered(arg.text)
    /\ ContainsPhrase(arg.text, <<"not", "helpful">>)
    /\ Hits.p = 2
    /\ Hits.n = 3
    /\ Returned.label = "NEGATIVE"

\* C29: when the positive count equals the negative count, the decision of
\* app_enhanced is neutral or negative, never positive.
C29_TieNeverPositive ==
    (Called({"enhanced_predict_sentiment", "enhanced_decision"})
     /\ Hits.p = Hits.n) =>
        Returned.label \in {"NEUTRAL", "NEGATIVE"}

\* The decision logic has been given a tie of two hits each on more than
\* three words, the one case in which the branch for positive could be taken.
C29_Witness ==
    /\ Called({"enhanced_decision"})
    /\ Hits.p = 2
    /\ Hits.n = 2
    /\ Hits.w > 3
    /\ Returned.label = "NEGATIVE"
====
